---- MODULE Spec2Model ----
(***************************************************************************)
(* Model of the product scraper (CuteStoryteller/product-scraperjs):       *)
(*   - iterateOverPagination        (src/lib/constructor.js)               *)
(*   - getOptimalForSearchSubstring (src/lib/search.js)                    *)
(*   - searchProduct                (src/lib/search.js)                    *)
(*   - assessRelevance, fuseSearchProduct (src/lib/fuse-product.js)        *)
(*   - filterProductCardsFromPage   (filter.js, src/unnamed/part_000)      *)
(*                                                                         *)
(* JavaScript values are tagged records so that deep equality (_.isEqual)  *)
(* is record equality and truthiness is computed as JavaScript does.       *)
(* Fuse.js scores are integers (hundredths are not needed: only the order  *)
(* of scores and thresholds matters to the code).                          *)
(***************************************************************************)
EXTENDS Integers, Sequences, FiniteSets, TLC

\* ------------------------------------------------------------------ bounds
\* Largest number of elements a per-page callback returns.
MaxPageLen == 2
\* Largest number of pages fetched by one iteration when `last` is absent.
MaxPages == 3
\* Longest search query given to getOptimalForSearchSubstring.
MaxQueryLen == 6
\* Longest product name given to searchProduct.
MaxNameLen == 3
\* Largest Fuse.js score and threshold, in the model's score unit.
MaxScore == 4
\* Largest number of product cards on a page given to filterProductCardsFromPage.
MaxCards == 4
\* Number of operations running at once on one scraper instance.
MaxOps == 2
\* Largest number of reset() calls on one scraper instance.
MaxResets == 2

\* ------------------------------------------------------------- JS values
JsString(s) == [type |-> "string", val |-> <<s>>]
JsObject(name, brand, url) == [type |-> "object", val |-> <<name, brand, url>>]
JsUndefined == [type |-> "undefined", val |-> <<>>]

\* ToBoolean of a JavaScript value: '' and undefined are falsy, objects and
\* non-empty strings are truthy.
Truthy(v) ==
    CASE v.type = "string" -> v.val # <<"">>
      [] v.type = "undefined" -> FALSE
      [] OTHER -> TRUE

\* Absent optional argument (pagination.first, pagination.last).
Undefined == -1

\* Array.prototype.find with the predicate val => _.isEqual(val, x):
\* the first element deeply equal to x, or undefined.
RECURSIVE Find(_, _)
Find(arr, x) ==
    IF arr = <<>> THEN JsUndefined
    ELSE IF Head(arr) = x THEN Head(arr)
    ELSE Find(Tail(arr), x)

\* data[0]: the first element, undefined on an empty array.
First0(data) == IF Len(data) = 0 THEN JsUndefined ELSE data[1]

\* Sequences over S of length 0..n.
SeqsUpTo(S, n) == UNION {[1..k -> S] : k \in 0..n}

\* Concatenation of a sequence of sequences.
RECURSIVE Flatten(_)
Flatten(ss) == IF ss = <<>> THEN <<>> ELSE Head(ss) \o Flatten(Tail(ss))

\* ------------------------------------------------------------------ state
VARIABLES
    op,         \* the public operation that was called
    pc,         \* position of the running operation
    pagUrl,     \* pagination.url: the query inside the URL prefix
    first,      \* pagination.first (Undefined when absent)
    last,       \* pagination.last (Undefined when absent)
    pageNum,    \* iterateOverPagination: pageNum
    acc,        \* iterateOverPagination: acc
    served,     \* history: the callback outcome of every page processed
    query,      \* getOptimalForSearchSubstring: query (sequence of characters)
    hasRes,     \* server: hasRes[k] iff the search for the prefix of length k finds cards
    left,       \* getOptimalForSearchSubstring: left
    right,      \* getOptimalForSearchSubstring: right
    middle,     \* getOptimalForSearchSubstring: middle
    substr,     \* getOptimalForSearchSubstring: substr
    probes,     \* history: every hasSearchResult answer, [len, res], in order
    fuseOptionsBrand,     \* config.fuseOptionsBrand {firstScore, firstScoreWarning, difference}
    fuseOptionsBrandless, \* config.fuseOptionsBrandless
    basicInfo,  \* searchProduct: basicInfo {name, brand, url}
    fieldNormWeight, \* FUSE_DEFAULT_OPTIONS.fieldNormWeight, in tenths (module level)
    fuseQuery,       \* fuseSearchProduct: which query produced the hits
    fuseReturned,    \* fuseSearchProduct returned {index, relevance}
    productNames,    \* fuseSearchProduct: productNames
    fuseThresholds,  \* fuseSearchProduct: thresholds
    rank,            \* Fuse.js: the hits of every search made so far, by query and weight
    fuseLog,         \* history: the searches of the current call, [query, weight, hits]
    firstOutcome,    \* history: what the first call of fuseSearchProduct gave
    index,      \* searchProduct: index
    relevance,  \* searchProduct: relevance
    relResults,      \* assessRelevance: results
    relThresholds,   \* assessRelevance: thresholds
    relOut,          \* assessRelevance: returned value
    filterCfg,       \* productListSelectors.images/.descriptions, placeholders.image/.description
    filterDoc,       \* the page given to filterProductCardsFromPage
    filterFunction,  \* filterProductCardsFromPage: filterFunction
    imgExist,        \* filterProductCardsFromPage: imgExist
    desExist,        \* filterProductCardsFromPage: desExist
    argTypes,   \* typeof of every argument of the public operation that was called
    site,       \* server: the pagination it serves, when that is fixed for the call
    controller, \* this.controller: the AbortController, known by its number
    signal,     \* this.signal: the controller whose signal fetch is given
    aborted,    \* the controllers on which abort() was called
    opPc,       \* concurrent operations: position of each
    opFirstPage, \* concurrent operations: pageNum === startPageNum, of each
    opSignal,   \* concurrent operations: the signal given to the fetch in flight
    hitByAbort, \* history: the operations that had a fetch in flight at an abort()
    issuedAfterAbort, \* history: the operations whose latest fetch was issued between an abort() and the next reset()
    fetchLog,   \* history: every URL handed to fetch, in order
    result,     \* value the operation returned
    err         \* error the operation threw ("none" while there is none)

pagVars == <<pagUrl, first, last, pageNum, acc, served>>
narrowVars == <<query, hasRes, left, right, middle, substr, probes>>
searchVars ==
    <<fuseOptionsBrand, fuseOptionsBrandless, basicInfo, fieldNormWeight,
      fuseQuery, fuseReturned, index, relevance>>
relVars == <<relResults, relThresholds, relOut>>
filterVars == <<filterCfg, filterDoc, filterFunction, imgExist, desExist>>
pureVars == <<relVars, filterVars>>
\* What the call was given and what the server holds: read, never written.
envVars == <<argTypes, site>>
\* Variables no step of pagination, narrowing or search writes.
abortVars ==
    <<controller, signal, aborted, opPc, opFirstPage, opSignal, hitByAbort, issuedAfterAbort>>
\* Variables of fuseSearchProduct called on its own, one call after another.
fuseVars == <<productNames, fuseThresholds, rank, fuseLog, firstOutcome>>
restVars == <<pureVars, envVars, abortVars, fuseVars>>
vars == <<op, pc, pagVars, narrowVars, searchVars, restVars, fetchLog, result, err>>

\* ------------------------------------------------------------------ is.js
\* An argument is known by the tag of its type: "undefined", "null",
\* "string", "number", "boolean", "object", "array", "function".
\* is.defined(val): val != undefined.
defined(t) == t \notin {"undefined", "null"}

\* typeChecker(typeName)(val): an array is an object as well.
typeChecker(typeName, t) ==
    CASE typeName = "object" -> t \in {"object", "array"}
      [] typeName = "array" -> t = "array"
      [] typeName = "function" -> t = "function"
      [] OTHER -> t = typeName

\* is.invalidType(valName, typeName, val, isOptional): TRUE iff it throws.
invalidType(typeName, t, isOptional) ==
    IF isOptional /\ ~defined(t) THEN FALSE ELSE ~typeChecker(typeName, t)

\* The public operations that paginate with filterProductCardsFromPage.
FilterPagOps ==
    {"filterProductCardsFromPagination", "filterProductCardsFromCatalog",
     "filterProductCardsFromSearch"}

\* Types of the arguments when the call is made as documented.
DocumentedTypes ==
    [pagination |-> "object", url |-> "string",
     first |-> IF first = Undefined THEN "undefined" ELSE "number",
     last |-> IF last = Undefined THEN "undefined" ELSE "number",
     callback |-> "function", filterFunction |-> "function",
     query |-> "string", criteria |-> "string",
     basicInfo |-> "object", name |-> "string",
     brand |-> basicInfo.brand.type, infoUrl |-> basicInfo.url.type]

\* The arguments each public operation takes.
ArgsOf(o) ==
    CASE o = "iterateOverPagination" -> {"pagination", "url", "first", "last", "callback"}
      [] o = "filterProductCardsFromPagination" ->
            {"pagination", "url", "first", "last", "callback", "filterFunction"}
      [] o = "filterProductCardsFromCatalog" -> {"criteria", "callback", "filterFunction"}
      [] o = "filterProductCardsFromSearch" -> {"query", "callback", "filterFunction"}
      [] o = "searchProduct" -> {"basicInfo", "name", "brand", "infoUrl"}
      [] OTHER -> {"query"}

\* A type the argument must not have.
WrongType(a) ==
    IF a \in {"url", "query", "criteria", "name", "brand", "infoUrl"}
    THEN "number" ELSE "string"

\* The documented types, or one argument of the call with a wrong type.
AnyTypes ==
    {DocumentedTypes} \cup
    {[DocumentedTypes EXCEPT ![a] = WrongType(a)] : a \in ArgsOf(op)}

\* No pagination is fixed: the server may answer every fetch with any page.
NoSite == [fixed |-> FALSE, pages |-> <<>>]

\* Values a generic per-page callback may put in its result.
Values == {JsString(""), JsString("a")}

\* Outcome of callback($) on one fetched page: it throws or returns an array.
Threw(e) == [throws |-> TRUE, error |-> e, data |-> <<>>]
Returned(d) == [throws |-> FALSE, error |-> "none", data |-> d]

GenericOutcomes ==
    {Threw("CallbackError")} \cup {Returned(d) : d \in SeqsUpTo(Values, MaxPageLen)}

\* ------------------------------------------------------------ extract.js
\* An <a> element without the href attribute.
NoAttr == "undefined"

\* A fetched search-result page: the texts of the elements selected by
\* productListSelectors.names and the href values of those selected by
\* productListSelectors.links, in document order.
Doc(names, links) == [names |-> names, links |-> links]

\* The pages the search server may serve: no card at all, one card, another
\* card, both cards, fewer links than names, no link, a link without href.
SearchDocs ==
    {Doc(<<>>, <<>>),
     Doc(<<"n1">>, <<"u1">>),
     Doc(<<"n2">>, <<"u2">>),
     Doc(<<"n1", "n2">>, <<"u1", "u2">>),
     Doc(<<"n1", "n2">>, <<"u1">>),
     Doc(<<"n1">>, <<>>),
     Doc(<<"n1">>, <<NoAttr>>)}

\* is.emptySelection(els, selector): throws when nothing is selected.
emptySelection(els) == Len(els) = 0

\* recognizeBrand with the default config.brands = []: no brand is found.
recognizeBrand(name) == ""

\* extractProductsBasicInfoFromList: names, then urls (extractUrls with the
\* default empty baseUrl returns the attribute values), then the length
\* check, then one {name, brand, url} object per card.
extractProductsBasicInfoFromList(doc) ==
    IF emptySelection(doc.names) THEN Threw("EmptySelection")
    ELSE IF emptySelection(doc.links) THEN Threw("EmptySelection")
    ELSE IF \E i \in 1..Len(doc.links) : doc.links[i] = NoAttr
         THEN Threw("MissingAttribute")
    ELSE IF Len(doc.names) # Len(doc.links) THEN Threw("CardinalityMismatch")
    ELSE Returned([i \in 1..Len(doc.names) |->
                    JsObject(doc.names[i], recognizeBrand(doc.names[i]), doc.links[i])])

\* ------------------------------------------- filterProductCardsFromPage
ImagePlaceholder == "placeholder-image-url"
DescriptionPlaceholder == "Lorem ipsum..."
ImageValues == {"image-url", ImagePlaceholder}
DescriptionValues == {"This is the description.", DescriptionPlaceholder}

\* Lists a selector can yield on a page with n cards: every list of n
\* values, and one list of every other length (its values are never read,
\* the length check throws first).
ListsFor(n, values, filler) ==
    [1..n -> values] \cup {[i \in 1..m |-> filler] : m \in (0..MaxCards) \ {n}}

\* A page: cards is what callback($) returns (card i is identified by i),
\* images and descriptions are what the list selectors yield.
FilterDocs ==
    UNION {[cards : {[i \in 1..n |-> i]},
            images : ListsFor(n, ImageValues, "image-url"),
            descriptions : ListsFor(n, DescriptionValues, "This is the description.")]
           : n \in 0..MaxCards}

\* Selectors and placeholders: '' is the unconfigured default.
FilterCfgs ==
    [imagesSelector : {"", ".product-card img"},
     imagePlaceholder : {"", ImagePlaceholder},
     descriptionsSelector : {"", ".product-card p"},
     descriptionPlaceholder : {"", DescriptionPlaceholder}]

\* filterFunction(imgExist, desExist): every boolean function of two booleans.
Predicates == [BOOLEAN \X BOOLEAN -> BOOLEAN]

\* Array(n).fill(false)
AllFalse(n) == [i \in 1..n |-> FALSE]

\* A plausible slip: the signal says "is the placeholder".
PresenceSignalInverted(values, placeholder) ==
    [i \in 1..Len(values) |-> values[i] = placeholder]

\* for (i ...) exist[i] = values[i] !== placeholder
PresenceSignal(values, placeholder) ==
    [i \in 1..Len(values) |-> values[i] # placeholder]

\* A plausible slip: the first kept card is dropped.
ArrayFilterDropFirst(data, keep) ==
    LET F[i \in 1..(Len(data) + 1)] ==
            IF i > Len(data) THEN <<>>
            ELSE (IF keep[i] THEN <<data[i]>> ELSE <<>>) \o F[i + 1]
    IN IF F[1] = <<>> THEN <<>> ELSE Tail(F[1])

\* data.filter((_, i) => keep[i])
ArrayFilter(data, keep) ==
    LET F[i \in 1..(Len(data) + 1)] ==
            IF i > Len(data) THEN <<>>
            ELSE (IF keep[i] THEN <<data[i]>> ELSE <<>>) \o F[i + 1]
    IN F[1]

\* filterProductCardsFromPage($, callback, filterFunction): the outcome and
\* the two signal arrays as they are when the function ends.
filterProductCardsFromPage(doc, cfg, f) ==
    LET data == doc.cards
        n == Len(data)
        useImg == cfg.imagesSelector # "" /\ cfg.imagePlaceholder # ""
        useDes == cfg.descriptionsSelector # "" /\ cfg.descriptionPlaceholder # ""
        img == IF useImg /\ Len(doc.images) = n
               THEN PresenceSignal(doc.images, cfg.imagePlaceholder)
               ELSE AllFalse(n)
        des == IF useDes /\ Len(doc.descriptions) = n
               THEN PresenceSignal(doc.descriptions, cfg.descriptionPlaceholder)
               ELSE AllFalse(n)
        out(o, d) == [outcome |-> o, imgExist |-> img, desExist |-> d]
    IN
    IF useImg /\ emptySelection(doc.images)
    THEN out(Threw("EmptySelection"), AllFalse(n))
    ELSE IF useImg /\ Len(doc.images) # n
    THEN out(Threw("ImagesCardinalityMismatch"), AllFalse(n))
    ELSE IF useDes /\ emptySelection(doc.descriptions)
    THEN out(Threw("EmptySelection"), AllFalse(n))
    ELSE IF useDes /\ Len(doc.descriptions) # n
    THEN out(Threw("DescriptionsCardinalityMismatch"), AllFalse(n))
    ELSE out(Returned(ArrayFilter(data, [i \in 1..n |-> f[<<img[i], des[i]>>]])), des)

\* The page and configuration of the documented example, and its four
\* filter functions.
ExampleDoc ==
    [cards |-> <<1, 2, 3, 4>>,
     images |-> <<"image-url", ImagePlaceholder, "image-url", ImagePlaceholder>>,
     descriptions |-> <<"This is the description.", "This is the description.",
                        DescriptionPlaceholder, DescriptionPlaceholder>>]

ExampleCfg ==
    [imagesSelector |-> ".product-card img", imagePlaceholder |-> ImagePlaceholder,
     descriptionsSelector |-> ".product-card p",
     descriptionPlaceholder |-> DescriptionPlaceholder]

NoImage == [b \in BOOLEAN \X BOOLEAN |-> ~b[1]]
NoDescription == [b \in BOOLEAN \X BOOLEAN |-> ~b[2]]
NoImageAndNoDescription == [b \in BOOLEAN \X BOOLEAN |-> ~b[1] /\ ~b[2]]
NoImageOrNoDescription == [b \in BOOLEAN \X BOOLEAN |-> ~b[1] \/ ~b[2]]

\* ------------------------------------------------ pages and callbacks
\* Product cards as a callback returns them (product page URLs).
Card(k) == JsString(k)

\* Pages of a filtered pagination: what the caller's callback does on the
\* page (it throws, or returns cards), and what the list selectors yield.
\* No card; one card with an image; another card with the placeholder
\* image; both cards; fewer images than cards; more descriptions than
\* cards; a page on which the callback throws.
FilteredPage(throws, cards, images, descriptions) ==
    [callbackThrows |-> throws, cards |-> cards, images |-> images,
     descriptions |-> descriptions]

PagFilterDocs ==
    {FilteredPage(FALSE, <<>>, <<>>, <<>>),
     FilteredPage(FALSE, <<Card("c1")>>, <<"image-url">>, <<"This is the description.">>),
     FilteredPage(FALSE, <<Card("c2")>>, <<ImagePlaceholder>>, <<DescriptionPlaceholder>>),
     FilteredPage(FALSE, <<Card("c1"), Card("c2")>>, <<"image-url", ImagePlaceholder>>,
                  <<"This is the description.", DescriptionPlaceholder>>),
     FilteredPage(FALSE, <<Card("c1"), Card("c2")>>, <<"image-url">>,
                  <<"This is the description.", DescriptionPlaceholder>>),
     FilteredPage(FALSE, <<Card("c1")>>, <<"image-url">>,
                  <<"This is the description.", "This is the description.">>),
     FilteredPage(TRUE, <<>>, <<>>, <<>>)}

\* Configurations of a filtered pagination: nothing configured, or the
\* documented example.
PagFilterCfgs ==
    {[imagesSelector |-> "", imagePlaceholder |-> "",
      descriptionsSelector |-> "", descriptionPlaceholder |-> ""],
     ExampleCfg}

\* Filter functions of a filtered pagination: keep every card, or keep the
\* cards without an image.
KeepAll == [b \in BOOLEAN \X BOOLEAN |-> TRUE]
PagPredicates == {KeepAll, NoImage}

\* $ => this.filterProductCardsFromPage($, callback, filterFunction): the
\* two type checks, the caller's callback, then the filtering.
FilterCallback(page) ==
    IF invalidType("function", argTypes.callback, FALSE) THEN Threw("InvalidType")
    ELSE IF invalidType("function", argTypes.filterFunction, FALSE) THEN Threw("InvalidType")
    ELSE IF page.callbackThrows THEN Threw("CallbackError")
    ELSE filterProductCardsFromPage(page, filterCfg, filterFunction).outcome

\* The pages a server can hold for the operation that is running. For a
\* generic callback a page is known by what the callback does on it.
Pages ==
    CASE op = "searchProduct" -> SearchDocs
      [] op \in FilterPagOps -> PagFilterDocs
      [] OTHER -> GenericOutcomes

\* callback($) for the operation that is running.
callback(page) ==
    CASE op = "searchProduct" -> extractProductsBasicInfoFromList(page)
      [] op \in FilterPagOps -> FilterCallback(page)
      [] OTHER -> page

\* The pages the server may serve for the fetch that is in flight. With a
\* fixed pagination of L pages the k-th fetch gets page k when k <= L; past
\* the end it gets a page on which the callback fails or one of the L pages
\* again.
PagesServed ==
    IF ~site.fixed THEN Pages
    ELSE LET k == Len(served) + 1 IN
         IF k <= Len(site.pages) THEN {site.pages[k]}
         ELSE {p \in Pages : callback(p).throws}
              \cup {site.pages[j] : j \in 1..Len(site.pages)}

\* What callback($) can produce for the page that arrived.
PageOutcomes == {callback(p) : p \in PagesServed}

\* URL of the N-th page: pagination.url + N. q is the query that
\* pagination.url contains (empty for a caller-supplied prefix).
PageUrl(q, n) == [kind |-> "page", q |-> q, page |-> n]

startPageNum == IF first = Undefined THEN 1 ELSE first

\* ------------------------------------------------- iterateOverPagination
\* The five is.invalidType calls of iterateOverPagination. The pagination
\* is the caller's for iterateOverPagination and
\* filterProductCardsFromPagination and the literal { url } otherwise; the
\* callback is the caller's for iterateOverPagination and an arrow function
\* otherwise.
IterInvalidType ==
    LET t == IF op \in {"iterateOverPagination", "filterProductCardsFromPagination"}
             THEN argTypes ELSE DocumentedTypes
        cb == IF op = "iterateOverPagination" THEN argTypes.callback ELSE "function"
    IN \/ invalidType("object", t.pagination, FALSE)
       \/ invalidType("string", t.url, FALSE)
       \/ invalidType("number", t.first, TRUE)
       \/ invalidType("number", t.last, TRUE)
       \/ invalidType("function", cb, FALSE)

\* Entry: the validation, then acc = [], pageNum = startPageNum.
IterCall ==
    /\ pc = "iterStart"
    /\ IF IterInvalidType
       THEN /\ err' = "InvalidType"
            /\ pc' = "failed"
            /\ UNCHANGED <<acc, pageNum, served>>
       ELSE /\ acc' = <<>>
            /\ pageNum' = startPageNum
            /\ served' = <<>>
            /\ pc' = "iterLoop"
            /\ UNCHANGED err
    /\ UNCHANGED <<restVars, op, pagUrl, first, last, narrowVars, searchVars, fetchLog, result>>

\* A plausible slip: the loop runs one page past `last`.
LoopConditionOneMore(pn) == last = Undefined \/ pn <= last + 1

\* last == undefined ? true : pageNum <= last
LoopCondition(pn) == last = Undefined \/ pn <= last

\* while (last == undefined ? true : pageNum <= last): issue the fetch of
\* url + pageNum, or leave the loop.
IterLoop ==
    /\ pc = "iterLoop"
    /\ IF LoopCondition(pageNum)
       THEN /\ pageNum - startPageNum < MaxPages
            /\ fetchLog' = Append(fetchLog, PageUrl(pagUrl, pageNum))
            /\ pc' = "iterFetching"
       ELSE /\ pc' = "iterReturn"
            /\ UNCHANGED fetchLog
    /\ UNCHANGED <<restVars, op, pagVars, narrowVars, searchVars, result, err>>

\* A plausible slip: the await is inside the try block, so that a failed
\* fetch of a later page ends the iteration normally.
IterFetchFailCaught ==
    /\ pc = "iterFetching"
    /\ IF pageNum = startPageNum
       THEN err' = "TransportError" /\ pc' = "failed"
       ELSE pc' = "iterReturn" /\ UNCHANGED err
    /\ UNCHANGED <<restVars, op, pagVars, narrowVars, searchVars, fetchLog, result>>

\* fetchCheerioAPI throws (awaited outside the try block): the error
\* leaves iterateOverPagination whatever the page number is.
IterFetchFail ==
    /\ pc = "iterFetching"
    /\ err' = "TransportError"
    /\ pc' = "failed"
    /\ UNCHANGED <<restVars, op, pagVars, narrowVars, searchVars, fetchLog, result>>

\* Does the duplicate-page check leave the loop?
\* if (acc.find(val => _.isEqual(val, data[0]))) break;
DuplicateBreak(a, data) == Truthy(Find(a, First0(data)))

\* A plausible slip: the first page is taken to be page 1, not `first`.
IsFirstPageDefaultOnly(pn) == pn = 1

\* catch (e) { if (pageNum === startPageNum) throw e; ... }
IsFirstPage(pn) == pn = startPageNum

\* The page arrived: the body of the try block and its catch clause.
IterPage ==
    /\ pc = "iterFetching"
    /\ \E o \in PageOutcomes :
        /\ served' = Append(served, o)
        /\ IF o.throws
           THEN IF IsFirstPage(pageNum)
                THEN /\ err' = o.error
                     /\ pc' = "failed"
                     /\ UNCHANGED <<acc, pageNum>>
                ELSE /\ pc' = "iterReturn"
                     /\ UNCHANGED <<acc, pageNum, err>>
           ELSE IF DuplicateBreak(acc, o.data)
                THEN /\ pc' = "iterReturn"
                     /\ UNCHANGED <<acc, pageNum, err>>
                ELSE /\ acc' = acc \o o.data
                     /\ pageNum' = pageNum + 1
                     /\ pc' = "iterLoop"
                     /\ UNCHANGED err
    /\ UNCHANGED <<restVars, op, pagUrl, first, last, narrowVars, searchVars, fetchLog, result>>

\* return acc;
IterReturn ==
    /\ pc = "iterReturn"
    /\ op \in {"iterateOverPagination"} \cup FilterPagOps
    /\ result' = acc
    /\ pc' = "done"
    /\ UNCHANGED <<restVars, op, pagVars, narrowVars, searchVars, fetchLog, err>>

\* ------------------------- filterProductCardsFromPagination/Catalog/Search
\* Entry of the three filtered paginations. FromCatalog checks criteria and
\* FromSearch checks query, then both build { url }; FromPagination passes
\* its pagination on. callback and filterFunction are not looked at here.
FilterPagCall ==
    /\ pc = "filterPagStart"
    /\ op \in FilterPagOps
    /\ IF \/ op = "filterProductCardsFromCatalog"
             /\ invalidType("string", argTypes.criteria, FALSE)
          \/ op = "filterProductCardsFromSearch"
             /\ invalidType("string", argTypes.query, FALSE)
       THEN /\ err' = "InvalidType"
            /\ pc' = "failed"
       ELSE /\ pc' = "iterStart"
            /\ UNCHANGED err
    /\ UNCHANGED <<restVars, op, pagVars, narrowVars, searchVars, fetchLog, result>>

\* ------------------------------------------ getOptimalForSearchSubstring
\* The query of length n; its i-th character is identified by its position.
QueryOfLen(n) == [i \in 1..n |-> i]

Min(a, b) == IF a < b THEN a ELSE b

\* String.prototype.substring(0, m) for m >= 0: the first min(m, length)
\* characters.
Substring0(q, m) == SubSeq(q, 1, Min(m, Len(q)))

\* URL of a has-results probe: paginations.search[0] + query.
ProbeUrl(q) == [kind |-> "probe", q |-> q, page |-> 0]

\* A plausible slip: the emptiness test is inverted.
hasSearchResultInverted(q) == ~hasRes[Len(q)]

\* hasSearchResult: !!$(selector).length on the fetched search page.
hasSearchResult(q) == hasRes[Len(q)]

\* The query given to getOptimalForSearchSubstring: the caller's, or
\* basicInfo.name when searchProduct calls it.
NarrowQueryType == IF op = "searchProduct" THEN argTypes.name ELSE argTypes.query

\* Entry: is.invalidType('query', 'string', query), then
\* hasResult = await this.hasSearchResult(query) issues its fetch.
NarrowCall ==
    /\ pc = "narrowStart"
    /\ IF invalidType("string", NarrowQueryType, FALSE)
       THEN /\ err' = "InvalidType"
            /\ pc' = "failed"
            /\ UNCHANGED fetchLog
       ELSE /\ fetchLog' = Append(fetchLog, ProbeUrl(query))
            /\ pc' = "narrowFirstProbe"
            /\ UNCHANGED err
    /\ UNCHANGED <<restVars, op, pagVars, narrowVars, searchVars, result>>

\* A probe's fetch throws: the error leaves getOptimalForSearchSubstring.
NarrowFetchFail ==
    /\ pc \in {"narrowFirstProbe", "narrowProbe"}
    /\ err' = "TransportError"
    /\ pc' = "failed"
    /\ UNCHANGED <<restVars, op, pagVars, narrowVars, searchVars, fetchLog, result>>

\* if (hasResult) return query; otherwise left = 1, right = query.length.
NarrowFirstProbe ==
    /\ pc = "narrowFirstProbe"
    /\ probes' = Append(probes, [len |-> Len(query), res |-> hasSearchResult(query)])
    /\ IF hasSearchResult(query)
       THEN /\ substr' = query
            /\ pc' = "narrowReturn"
            /\ UNCHANGED <<left, right>>
       ELSE /\ left' = 1
            /\ right' = Len(query)
            /\ pc' = "narrowLoop"
            /\ UNCHANGED substr
    /\ UNCHANGED <<restVars, op, pagVars, query, hasRes, middle, searchVars, fetchLog, result, err>>

\* A plausible slip: the range is searched linearly from its lower end.
MiddleLow(l, r) == l + 1

\* Math.floor((left + right) / 2)
Middle(l, r) == (l + r) \div 2

\* while (right - left > 1): compute middle and substr and issue the probe;
\* after the loop: return query.substring(0, left + 1).
NarrowLoop ==
    /\ pc = "narrowLoop"
    /\ IF right - left > 1
       THEN /\ middle' = Middle(left, right)
            /\ substr' = Substring0(query, middle' + 1)
            /\ fetchLog' = Append(fetchLog, ProbeUrl(substr'))
            /\ pc' = "narrowProbe"
       ELSE /\ substr' = Substring0(query, left + 1)
            /\ pc' = "narrowReturn"
            /\ UNCHANGED <<middle, fetchLog>>
    /\ UNCHANGED <<restVars, op, pagVars, query, hasRes, left, right, probes, searchVars, result, err>>

\* hasResult ? left = middle : right = middle;
NarrowProbe ==
    /\ pc = "narrowProbe"
    /\ probes' = Append(probes, [len |-> Len(substr), res |-> hasSearchResult(substr)])
    /\ IF hasSearchResult(substr)
       THEN left' = middle /\ UNCHANGED right
       ELSE right' = middle /\ UNCHANGED left
    /\ pc' = "narrowLoop"
    /\ UNCHANGED <<restVars, op, pagVars, query, hasRes, middle, substr, searchVars, fetchLog, result, err>>

\* The returned string reaches the caller.
NarrowReturn ==
    /\ pc = "narrowReturn"
    /\ op = "getOptimalForSearchSubstring"
    /\ result' = substr
    /\ pc' = "done"
    /\ UNCHANGED <<restVars, op, pagVars, narrowVars, searchVars, fetchLog, err>>

\* ------------------------------------------------------- hasSearchResult
\* hasSearchResult called by the user: is.invalidType('query', 'string',
\* query), then the fetch of search[0] + query.
HasCall ==
    /\ pc = "hasStart"
    /\ IF invalidType("string", argTypes.query, FALSE)
       THEN /\ err' = "InvalidType"
            /\ pc' = "failed"
            /\ UNCHANGED fetchLog
       ELSE /\ fetchLog' = Append(fetchLog, ProbeUrl(query))
            /\ pc' = "hasFetching"
            /\ UNCHANGED err
    /\ UNCHANGED <<restVars, op, pagVars, narrowVars, searchVars, result>>

\* The fetch throws.
HasFetchFail ==
    /\ pc = "hasFetching"
    /\ err' = "TransportError"
    /\ pc' = "failed"
    /\ UNCHANGED <<restVars, op, pagVars, narrowVars, searchVars, fetchLog, result>>

\* return !!$(selector).length;
HasReturn ==
    /\ pc = "hasFetching"
    /\ probes' = Append(probes, [len |-> Len(query), res |-> hasSearchResult(query)])
    /\ result' = <<hasSearchResult(query)>>
    /\ pc' = "done"
    /\ UNCHANGED <<restVars, op, pagVars, query, hasRes, left, right, middle, substr,
                   searchVars, fetchLog, err>>

\* -------------------------------------------------------- fuse-product.js
\* Ranked hits the code reads from a Fuse.js result: results[0], results[1].
HitsRead == 2

Scores == 0..MaxScore

\* Possible results of fuse.search over n names, cut to the hits the code
\* reads: distinct refIndex values in 0..n-1, scores ascending (shouldSort).
HitLists(n) ==
    {h \in SeqsUpTo([refIndex : 0..(n - 1), score : Scores], HitsRead) :
        \A a \in 1..Len(h) : \A b \in 1..Len(h) :
            a < b => (h[a].refIndex # h[b].refIndex /\ h[a].score <= h[b].score)}

\* A plausible slip: the first threshold is compared with > instead of >=.
assessRelevanceStrict(results, thresholds) ==
    LET firstScore == results[1].score IN
    IF firstScore > thresholds.firstScore THEN 0
    ELSE IF firstScore >= thresholds.firstScoreWarning THEN 1
    ELSE IF Len(results) > 1 /\ results[2].score - firstScore < thresholds.difference
         THEN 2
    ELSE 3

\* assessRelevance(results, thresholds)
assessRelevance(results, thresholds) ==
    LET firstScore == results[1].score IN
    IF firstScore >= thresholds.firstScore THEN 0
    ELSE IF firstScore >= thresholds.firstScoreWarning THEN 1
    ELSE IF Len(results) > 1 /\ results[2].score - firstScore < thresholds.difference
         THEN 2
    ELSE 3

\* `let thresholds;` before either search has chosen a set.
NoThresholds == [firstScore |-> 0, firstScoreWarning |-> 0, difference |-> 0]

\* The two queries of fuseSearchProduct: name and brand, name alone.
QueryKinds == {"nameAndBrand", "name"}

\* The values options.fieldNormWeight takes, in tenths: 0 and 0.5.
Weights == {0, 5}

\* No search made yet.
NotSearched == [known |-> FALSE, hits |-> <<>>]

NoRank == [k \in QueryKinds \X Weights |-> NotSearched]

\* The names a hit list refers to.
HitSet(h) == {h[i].refIndex : i \in 1..Len(h)}

\* new Fuse(names, options).search(query): a function of the names, the
\* query and options.fieldNormWeight. A search made before gives the hits
\* it gave then; fieldNormWeight changes scores and order only, so the same
\* query under another weight hits the same names.
FuseSearchResults(q, w) ==
    IF rank[<<q, w>>].known
    THEN {rank[<<q, w>>].hits}
    ELSE {h \in HitLists(Len(productNames)) :
            \A v \in Weights :
                rank[<<q, v>>].known => HitSet(h) = HitSet(rank[<<q, v>>].hits)}

\* The search of q under weight w, with hits h, as it is remembered.
Searched(q, w, h) == [query |-> q, weight |-> w, hits |-> h]

\* A plausible slip: a brand that is the empty string is searched as well.
BrandGivenIfDefined(bi) == bi.brand # JsUndefined

\* if (basicInfo.brand)
BrandGiven(bi) == Truthy(bi.brand)

\* ----------------------------------------------------------- searchProduct
\* A plausible slip: the known url is never used.
UrlGivenIgnored(bi) == FALSE

\* if (basicInfo.url) return basicInfo.url;
UrlGiven(bi) == Truthy(bi.url)

\* A plausible slip: relevance 1 is rejected as well.
NoMatchUpToOne(rel) == rel <= 1

\* if (relevance === 0) throw ...
NoMatch(rel) == rel = 0

\* The three is.invalidType calls of searchProduct: basicInfo, its brand
\* and its url (basicInfo.name is not among them).
SearchInvalidType ==
    \/ invalidType("object", argTypes.basicInfo, FALSE)
    \/ invalidType("string", argTypes.brand, TRUE)
    \/ invalidType("string", argTypes.infoUrl, TRUE)

\* Entry: the validation; a known url is returned at once, otherwise
\* getOptimalForSearchSubstring(name) is called.
SearchCall ==
    /\ pc = "searchStart"
    /\ IF SearchInvalidType
       THEN /\ err' = "InvalidType"
            /\ pc' = "failed"
            /\ UNCHANGED <<query, result>>
       ELSE IF UrlGiven(basicInfo)
       THEN /\ result' = basicInfo.url.val[1]
            /\ pc' = "done"
            /\ UNCHANGED <<query, err>>
       ELSE /\ query' = basicInfo.name
            /\ pc' = "narrowStart"
            /\ UNCHANGED <<result, err>>
    /\ UNCHANGED <<restVars, op, pagVars, hasRes, left, right, middle, substr, probes,
                   searchVars, fetchLog>>

\* A plausible slip: the candidates are gathered with the full name.
nameSubstrFull == query

\* const nameSubstr = await this.getOptimalForSearchSubstring(basicInfo.name)
nameSubstr == substr

\* nameSubstr is returned; iterateOverPagination({ url }, ...) is called
\* with url = search[0] + nameSubstr + search[1].
SearchGather ==
    /\ pc = "narrowReturn"
    /\ op = "searchProduct"
    /\ pagUrl' = nameSubstr
    /\ first' = Undefined
    /\ last' = Undefined
    /\ pc' = "iterStart"
    /\ UNCHANGED <<restVars, op, pageNum, acc, served, narrowVars, searchVars, fetchLog,
                   result, err>>

\* basicInfoList is returned: the zero-length check, then the first part
\* of fuseSearchProduct: the brand-qualified search when basicInfo.brand is
\* given, the name-only search when that found nothing, assessRelevance.
FuseSearch ==
    /\ pc = "iterReturn"
    /\ op = "searchProduct"
    /\ IF Len(acc) = 0
       THEN /\ err' = "SearchEngineDoesNotWork"
            /\ pc' = "failed"
            /\ UNCHANGED <<fuseQuery, index, relevance>>
       ELSE \E bh \in (IF Truthy(basicInfo.brand) THEN HitLists(Len(acc)) ELSE {<<>>}) :
            \E nh \in (IF bh = <<>> THEN HitLists(Len(acc)) ELSE {<<>>}) :
              LET res1 == IF bh # <<>> THEN bh ELSE nh
                  thresholds == IF bh # <<>> THEN fuseOptionsBrand
                                ELSE fuseOptionsBrandless
              IN
              /\ fuseQuery' = IF bh # <<>> THEN "nameAndBrand" ELSE "name"
              /\ IF res1 = <<>>
                 THEN /\ err' = "FuseCannotFind"
                      /\ pc' = "failed"
                      /\ UNCHANGED <<index, relevance>>
                 ELSE /\ relevance' = assessRelevance(res1, thresholds)
                      /\ index' = res1[1].refIndex
                      /\ pc' = IF relevance' = 2 THEN "fuseRerun" ELSE "fuseReturn"
                      /\ UNCHANGED err
    /\ UNCHANGED <<restVars, op, pagVars, narrowVars, fuseOptionsBrand, fuseOptionsBrandless,
                   basicInfo, fieldNormWeight, fuseReturned, fetchLog, result>>

\* if (relevance === 2): options.fieldNormWeight = 0.5 (options is the
\* module-level FUSE_DEFAULT_OPTIONS object), search again with the same
\* query; the index is that of the new top hit, relevance is kept.
FuseRerun ==
    /\ pc = "fuseRerun"
    /\ fieldNormWeight' = 5
    /\ \E res2 \in HitLists(Len(acc)) \ {<<>>} :
        index' = res2[1].refIndex
    /\ pc' = "fuseReturn"
    /\ UNCHANGED <<restVars, op, pagVars, narrowVars, fuseOptionsBrand, fuseOptionsBrandless,
                   basicInfo, fuseQuery, fuseReturned, relevance, fetchLog, result, err>>

\* fuseSearchProduct returned { index, relevance }: the relevance check and
\* return basicInfoList[index].url.
SearchFinish ==
    /\ pc = "fuseReturn"
    /\ fuseReturned' = TRUE
    /\ IF NoMatch(relevance)
       THEN /\ err' = "NoProductsCloseEnough"
            /\ pc' = "failed"
            /\ UNCHANGED result
       ELSE /\ result' = acc[index + 1].val[3]
            /\ pc' = "done"
            /\ UNCHANGED err
    /\ UNCHANGED <<restVars, op, pagVars, narrowVars, fuseOptionsBrand, fuseOptionsBrandless,
                   basicInfo, fieldNormWeight, fuseQuery, index, relevance, fetchLog>>

\* ------------------------------------- fuseSearchProduct called on its own
\* The first part of fuseSearchProduct: options = FUSE_DEFAULT_OPTIONS, the
\* brand-qualified search when basicInfo.brand is given, the name-only
\* search when that found nothing, assessRelevance.
FuseFirstSearch ==
    /\ pc = "fuseStart"
    /\ \E bh \in (IF BrandGiven(basicInfo)
                  THEN FuseSearchResults("nameAndBrand", fieldNormWeight)
                  ELSE {<<>>}) :
       \E nh \in (IF bh = <<>> THEN FuseSearchResults("name", fieldNormWeight)
                  ELSE {<<>>}) :
         LET res1 == IF bh # <<>> THEN bh ELSE nh
             brandSearch == IF BrandGiven(basicInfo)
                            THEN <<Searched("nameAndBrand", fieldNormWeight, bh)>>
                            ELSE <<>>
             nameSearch == IF bh = <<>>
                           THEN <<Searched("name", fieldNormWeight, nh)>>
                           ELSE <<>>
         IN
         /\ fuseLog' = brandSearch \o nameSearch
         /\ rank' = [k \in QueryKinds \X Weights |->
                       IF \E i \in 1..Len(fuseLog') :
                            k = <<fuseLog'[i].query, fuseLog'[i].weight>>
                       THEN [known |-> TRUE,
                             hits |-> IF k[1] = "nameAndBrand" THEN bh ELSE nh]
                       ELSE rank[k]]
         /\ fuseQuery' = IF bh # <<>> THEN "nameAndBrand" ELSE "name"
         /\ fuseThresholds' = IF bh # <<>> THEN fuseOptionsBrand ELSE fuseOptionsBrandless
         /\ IF res1 = <<>>
            THEN /\ err' = "FuseCannotFind"
                 /\ pc' = "failed"
                 /\ UNCHANGED <<index, relevance>>
            ELSE /\ relevance' = assessRelevance(res1, fuseThresholds')
                 /\ index' = res1[1].refIndex
                 /\ pc' = IF relevance' = 2 THEN "fuseRerun" ELSE "fuseReturn"
                 /\ UNCHANGED err
    /\ UNCHANGED <<pureVars, envVars, abortVars, op, pagVars, narrowVars, fuseOptionsBrand,
                   fuseOptionsBrandless, basicInfo, fieldNormWeight, fuseReturned,
                   productNames, firstOutcome, fetchLog, result>>

\* if (relevance === 2): options.fieldNormWeight = 0.5 (options is the
\* module-level FUSE_DEFAULT_OPTIONS object), search again with the same
\* query; the index is that of the new top hit, relevance is kept.
FuseSecondSearch ==
    /\ pc = "fuseRerun"
    /\ op = "fuseSearchProduct"
    /\ fieldNormWeight' = 5
    /\ \E res2 \in FuseSearchResults(fuseQuery, fieldNormWeight') :
        /\ index' = res2[1].refIndex
        /\ fuseLog' = Append(fuseLog, Searched(fuseQuery, fieldNormWeight', res2))
        /\ rank' = [rank EXCEPT ![<<fuseQuery, fieldNormWeight'>>] =
                        [known |-> TRUE, hits |-> res2]]
    /\ pc' = "fuseReturn"
    /\ UNCHANGED <<pureVars, envVars, abortVars, op, pagVars, narrowVars, fuseOptionsBrand,
                   fuseOptionsBrandless, basicInfo, fuseQuery, fuseReturned, relevance,
                   productNames, fuseThresholds, firstOutcome, fetchLog, result, err>>

\* return { index, relevance }
FuseReturn ==
    /\ pc = "fuseReturn"
    /\ op = "fuseSearchProduct"
    /\ fuseReturned' = TRUE
    /\ result' = <<index, relevance>>
    /\ pc' = "done"
    /\ UNCHANGED <<restVars, op, pagVars, narrowVars, fuseOptionsBrand, fuseOptionsBrandless,
                   basicInfo, fieldNormWeight, fuseQuery, index, relevance, fetchLog, err>>

\* What a finished call gave its caller: the returned pair or the error.
Outcome == [known |-> TRUE, result |-> result, err |-> err]

NoOutcome == [known |-> FALSE, result |-> <<>>, err |-> "none"]

\* The next call of fuseSearchProduct in the same process, with the
\* arguments of the call before: its locals are fresh, FUSE_DEFAULT_OPTIONS
\* is the module's.
FuseCall ==
    /\ op = "fuseSearchProduct"
    /\ pc \in {"done", "failed"}
    /\ firstOutcome' = IF firstOutcome.known THEN firstOutcome ELSE Outcome
    /\ fuseQuery' = "none"
    /\ fuseThresholds' = NoThresholds
    /\ fuseLog' = <<>>
    /\ fuseReturned' = FALSE
    /\ index' = 0
    /\ relevance' = 0
    /\ result' = <<>>
    /\ err' = "none"
    /\ pc' = "fuseStart"
    /\ UNCHANGED <<pureVars, envVars, abortVars, op, pagVars, narrowVars, fuseOptionsBrand,
                   fuseOptionsBrandless, basicInfo, fieldNormWeight, productNames, rank,
                   fetchLog>>

\* --------------------------------------- assessRelevance as an operation
AssessRelevance ==
    /\ pc = "relStart"
    /\ relOut' = assessRelevance(relResults, relThresholds)
    /\ pc' = "done"
    /\ UNCHANGED <<op, pagVars, narrowVars, searchVars, relResults, relThresholds,
                   filterVars, envVars, abortVars, fuseVars, fetchLog, result, err>>

\* --------------------------- filterProductCardsFromPage as an operation
\* One call of filterProductCardsFromPage with some filterFunction.
FilterPage ==
    /\ pc = "filterStart"
    /\ \E f \in Predicates :
        LET r == filterProductCardsFromPage(filterDoc, filterCfg, f) IN
        /\ filterFunction' = f
        /\ imgExist' = r.imgExist
        /\ desExist' = r.desExist
        /\ IF r.outcome.throws
           THEN err' = r.outcome.error /\ pc' = "failed" /\ UNCHANGED result
           ELSE result' = r.outcome.data /\ pc' = "done" /\ UNCHANGED err
    /\ UNCHANGED <<op, pagVars, narrowVars, searchVars, relVars, filterCfg,
                   filterDoc, envVars, abortVars, fuseVars, fetchLog>>

\* ------------------------------------------ abort, reset, concurrent calls
\* Several iterateOverPagination calls (last absent) run on one instance
\* while abort() and reset() are called. Of each call the model keeps its
\* position, whether it is at its first page, and the signal its fetch in
\* flight was given.
Ops == 1..MaxOps

\* The variables of the calls modelled one at a time.
singleVars ==
    <<op, pc, pagVars, narrowVars, searchVars, pureVars, envVars, fuseVars, fetchLog,
      result, err>>

\* The call starts: validation passes, pageNum = startPageNum.
OpCall(p) ==
    /\ pc = "concurrent"
    /\ opPc[p] = "idle"
    /\ opPc' = [opPc EXCEPT ![p] = "loop"]
    /\ UNCHANGED <<controller, signal, aborted, opFirstPage, opSignal, hitByAbort, issuedAfterAbort>>
    /\ UNCHANGED singleVars

\* fetchCheerioAPI: fetch(url, { signal: this.signal }) takes the signal the
\* instance holds now.
OpFetch(p) ==
    /\ pc = "concurrent"
    /\ opPc[p] = "loop"
    /\ opSignal' = [opSignal EXCEPT ![p] = signal]
    /\ opPc' = [opPc EXCEPT ![p] = "fetching"]
    /\ issuedAfterAbort' = IF controller \in aborted
                           THEN issuedAfterAbort \cup {p}
                           ELSE issuedAfterAbort \ {p}
    /\ UNCHANGED <<controller, signal, aborted, opFirstPage, hitByAbort>>
    /\ UNCHANGED singleVars

\* The fetch rejects (its signal was aborted, or the transport failed):
\* fetchCheerioAPI throws and, the await being outside the try block, so
\* does the operation.
OpFetchFail(p) ==
    /\ pc = "concurrent"
    /\ opPc[p] = "fetching"
    /\ opPc' = [opPc EXCEPT ![p] = "failed"]
    /\ UNCHANGED <<controller, signal, aborted, opFirstPage, opSignal, hitByAbort, issuedAfterAbort>>
    /\ UNCHANGED singleVars

\* What the callback does on the page that arrived.
OpOutcomes == {"data", "duplicate", "throws"}

\* The fetch resolves, which it cannot do once its signal is aborted; then
\* the try block and the catch clause.
OpPage(p) ==
    /\ pc = "concurrent"
    /\ opPc[p] = "fetching"
    /\ opSignal[p] \notin aborted
    /\ \E o \in OpOutcomes :
        IF o = "data"
        THEN /\ opFirstPage' = [opFirstPage EXCEPT ![p] = FALSE]
             /\ opPc' = [opPc EXCEPT ![p] = "loop"]
        ELSE /\ opPc' = [opPc EXCEPT ![p] =
                          IF o = "throws" /\ opFirstPage[p] THEN "failed" ELSE "done"]
             /\ UNCHANGED opFirstPage
    /\ UNCHANGED <<controller, signal, aborted, opSignal, hitByAbort, issuedAfterAbort>>
    /\ UNCHANGED singleVars

\* abort(): this.controller.abort().
Abort ==
    /\ pc = "concurrent"
    /\ aborted' = aborted \cup {controller}
    /\ hitByAbort' = hitByAbort \cup {p \in Ops : opPc[p] = "fetching"}
    /\ UNCHANGED <<controller, signal, opPc, opFirstPage, opSignal, issuedAfterAbort>>
    /\ UNCHANGED singleVars

\* A plausible slip: reset() replaces the controller and keeps the signal.
ResetControllerOnly ==
    /\ pc = "concurrent"
    /\ controller < MaxResets
    /\ controller' = controller + 1
    /\ UNCHANGED <<signal, aborted, opPc, opFirstPage, opSignal, hitByAbort, issuedAfterAbort>>
    /\ UNCHANGED singleVars

\* reset(): this.controller = new AbortController(); this.signal = its signal.
Reset ==
    /\ pc = "concurrent"
    /\ controller < MaxResets
    /\ controller' = controller + 1
    /\ signal' = controller'
    /\ UNCHANGED <<aborted, opPc, opFirstPage, opSignal, hitByAbort, issuedAfterAbort>>
    /\ UNCHANGED singleVars

\* ------------------------------------------------------- specifications
\* Variables of an operation that is not running.
PagIdle ==
    /\ pagUrl = <<>> /\ first = Undefined /\ last = Undefined /\ pageNum = 0
    /\ acc = <<>> /\ served = <<>>

\* The module as loaded, fuseSearchProduct not called on its own.
FuseIdle ==
    /\ productNames = <<>> /\ fuseThresholds = NoThresholds
    /\ rank = NoRank /\ fuseLog = <<>>
    /\ firstOutcome = NoOutcome

SearchIdle ==
    /\ fuseOptionsBrand = NoThresholds /\ fuseOptionsBrandless = NoThresholds
    /\ basicInfo = [name |-> <<>>, brand |-> JsUndefined, url |-> JsUndefined]
    /\ fieldNormWeight = 0 /\ fuseQuery = "none"
    /\ fuseReturned = FALSE /\ index = 0 /\ relevance = 0
    /\ FuseIdle

\* The instance as constructed, no concurrent call.
AbortIdle ==
    /\ controller = 0 /\ signal = 0 /\ aborted = {}
    /\ opPc = <<>> /\ opFirstPage = <<>> /\ opSignal = <<>> /\ hitByAbort = {}
    /\ issuedAfterAbort = {}

PureIdle ==
    /\ relResults = <<>> /\ relThresholds = NoThresholds /\ relOut = 0
    /\ filterCfg = <<>> /\ filterDoc = <<>> /\ filterFunction = <<>>
    /\ imgExist = <<>> /\ desExist = <<>>
    /\ AbortIdle
    /\ FuseIdle

NarrowIdle ==
    /\ query = <<>> /\ hasRes = <<>> /\ left = 0 /\ right = 0
    /\ middle = 0 /\ substr = <<>> /\ probes = <<>>

IterInit ==
    /\ op = "iterateOverPagination"
    /\ pc = "iterStart"
    /\ pagUrl = <<>>
    /\ SearchIdle
    /\ PureIdle
    /\ first \in {Undefined, 2}
    /\ last \in {Undefined} \cup (1..MaxPages)
    /\ pageNum = 0
    /\ acc = <<>>
    /\ served = <<>>
    /\ NarrowIdle
    /\ argTypes \in AnyTypes
    /\ site = NoSite
    /\ fetchLog = <<>>
    /\ result = <<>>
    /\ err = "none"

IterNext == IterCall \/ IterLoop \/ IterFetchFail \/ IterPage \/ IterReturn

\* One call of iterateOverPagination with a generic callback.
Spec == IterInit /\ [][IterNext]_vars

\* The lengths of the strings a call with a query of length n may probe:
\* its non-empty prefixes, or the empty query itself.
ProbedLens(n) == IF n = 0 THEN {0} ELSE 1..n

NarrowInit ==
    /\ op = "getOptimalForSearchSubstring"
    /\ pc = "narrowStart"
    /\ PagIdle
    /\ SearchIdle
    /\ PureIdle
    /\ \E n \in 0..MaxQueryLen :
        /\ query = QueryOfLen(n)
        /\ hasRes \in [ProbedLens(n) -> BOOLEAN]
    /\ argTypes \in AnyTypes
    /\ site = NoSite
    /\ left = 0 /\ right = 0 /\ middle = 0
    /\ substr = <<>>
    /\ probes = <<>>
    /\ fetchLog = <<>>
    /\ result = <<>>
    /\ err = "none"

NarrowNext ==
    NarrowCall \/ NarrowFetchFail \/ NarrowFirstProbe \/ NarrowLoop
    \/ NarrowProbe \/ NarrowReturn

\* One call of getOptimalForSearchSubstring against a server whose answer
\* for every prefix length is fixed.
SpecNarrow == NarrowInit /\ [][NarrowNext]_vars

\* The same call on an event loop that resumes every pending await: each
\* fetch settles and each continuation runs.
SpecNarrowFair == SpecNarrow /\ WF_vars(NarrowNext)

\* A call of searchProduct, but for the types of its arguments.
SearchArgs ==
    /\ op = "searchProduct"
    /\ pc = "searchStart"
    /\ PagIdle
    /\ PureIdle
    /\ query = <<>> /\ left = 0 /\ right = 0 /\ middle = 0
    /\ substr = <<>> /\ probes = <<>>
    /\ fuseOptionsBrand = [firstScore |-> 3, firstScoreWarning |-> 2, difference |-> 1]
    /\ fuseOptionsBrandless = [firstScore |-> 4, firstScoreWarning |-> 2, difference |-> 2]
    /\ \E n \in 1..MaxNameLen :
        /\ hasRes \in [1..n -> BOOLEAN]
        /\ basicInfo \in [name : {QueryOfLen(n)},
                          brand : {JsUndefined, JsString("brand")},
                          url : {JsUndefined, JsString(""), JsString("http://known")}]
    /\ fieldNormWeight = 0 /\ fuseQuery = "none"
    /\ fuseReturned = FALSE /\ index = 0 /\ relevance = 0
    /\ site = NoSite
    /\ fetchLog = <<>>
    /\ result = <<>>
    /\ err = "none"

SearchInit == SearchArgs /\ argTypes = DocumentedTypes

SearchNext ==
    SearchCall \/ NarrowCall \/ NarrowFetchFail \/ NarrowFirstProbe \/ NarrowLoop
    \/ NarrowProbe \/ SearchGather \/ IterCall \/ IterLoop \/ IterFetchFail
    \/ IterPage \/ FuseSearch \/ FuseRerun \/ SearchFinish

\* One call of searchProduct.
SpecSearch == SearchInit /\ [][SearchNext]_vars

\* basicInfo.brand of a call: absent, empty, or a brand.
Brands == {JsUndefined, JsString(""), JsString("brand")}

FuseInit ==
    /\ op = "fuseSearchProduct"
    /\ pc = "fuseStart"
    /\ PagIdle
    /\ NarrowIdle
    /\ relResults = <<>> /\ relThresholds = NoThresholds /\ relOut = 0
    /\ filterCfg = <<>> /\ filterDoc = <<>> /\ filterFunction = <<>>
    /\ imgExist = <<>> /\ desExist = <<>>
    /\ AbortIdle
    /\ fuseOptionsBrand = [firstScore |-> 3, firstScoreWarning |-> 2, difference |-> 1]
    /\ fuseOptionsBrandless = [firstScore |-> 4, firstScoreWarning |-> 2, difference |-> 2]
    /\ basicInfo \in [name : {QueryOfLen(1)}, brand : Brands, url : {JsUndefined}]
    /\ argTypes = DocumentedTypes /\ site = NoSite
    /\ productNames \in {<<"n1">>, <<"n1", "n2">>}
    /\ fuseThresholds = NoThresholds
    /\ rank = NoRank
    /\ fuseLog = <<>>
    /\ firstOutcome = NoOutcome
    /\ fieldNormWeight = 0 /\ fuseQuery = "none"
    /\ fuseReturned = FALSE /\ index = 0 /\ relevance = 0
    /\ fetchLog = <<>>
    /\ result = <<>>
    /\ err = "none"

FuseNext == FuseFirstSearch \/ FuseSecondSearch \/ FuseReturn \/ FuseCall

\* Calls of fuseSearchProduct with the same arguments, one after the other
\* in one process.
SpecFuse == FuseInit /\ [][FuseNext]_vars

IdleCall ==
    /\ PagIdle /\ NarrowIdle /\ SearchIdle /\ AbortIdle
    /\ argTypes = DocumentedTypes /\ site = NoSite
    /\ fetchLog = <<>> /\ result = <<>> /\ err = "none"

RelevanceInit ==
    /\ op = "assessRelevance"
    /\ pc = "relStart"
    /\ IdleCall
    /\ relResults \in HitLists(HitsRead) \ {<<>>}
    /\ relThresholds \in [firstScore : Scores, firstScoreWarning : Scores,
                           difference : Scores]
    /\ relOut = 0
    /\ filterCfg = <<>> /\ filterDoc = <<>> /\ filterFunction = <<>>
    /\ imgExist = <<>> /\ desExist = <<>>

\* assessRelevance applied to every ranked result and threshold set.
SpecRelevance == RelevanceInit /\ [][AssessRelevance]_vars

FilterInit ==
    /\ op = "filterProductCardsFromPage"
    /\ pc = "filterStart"
    /\ IdleCall
    /\ relResults = <<>> /\ relThresholds = NoThresholds /\ relOut = 0
    /\ filterCfg \in FilterCfgs
    /\ filterDoc \in FilterDocs
    /\ filterFunction = <<>>
    /\ imgExist = <<>> /\ desExist = <<>>

\* filterProductCardsFromPage applied to every page, configuration and
\* filterFunction.
SpecFilter == FilterInit /\ [][FilterPage]_vars

HasInit ==
    /\ op = "hasSearchResult"
    /\ pc = "hasStart"
    /\ PagIdle
    /\ SearchIdle
    /\ PureIdle
    /\ \E n \in 1..2 :
        /\ query = QueryOfLen(n)
        /\ hasRes \in [1..n -> BOOLEAN]
    /\ left = 0 /\ right = 0 /\ middle = 0
    /\ substr = <<>>
    /\ probes = <<>>
    /\ argTypes \in AnyTypes
    /\ site = NoSite
    /\ fetchLog = <<>>
    /\ result = <<>>
    /\ err = "none"

\* A call of one of the three filtered paginations; only
\* filterProductCardsFromPagination takes first and last.
FilterPagArgs ==
    /\ op \in FilterPagOps
    /\ pc = "filterPagStart"
    /\ pagUrl = <<>>
    /\ first \in (IF op = "filterProductCardsFromPagination"
                  THEN {Undefined, 2} ELSE {Undefined})
    /\ last \in (IF op = "filterProductCardsFromPagination"
                 THEN {Undefined} \cup (1..MaxPages) ELSE {Undefined})
    /\ pageNum = 0
    /\ acc = <<>>
    /\ served = <<>>
    /\ NarrowIdle
    /\ SearchIdle
    /\ relResults = <<>> /\ relThresholds = NoThresholds /\ relOut = 0
    /\ AbortIdle
    /\ filterCfg \in PagFilterCfgs
    /\ filterFunction \in PagPredicates
    /\ filterDoc = <<>>
    /\ imgExist = <<>> /\ desExist = <<>>
    /\ fetchLog = <<>>
    /\ result = <<>>
    /\ err = "none"

FilterPagInit == FilterPagArgs /\ argTypes \in AnyTypes /\ site = NoSite

CallsInit ==
    \/ IterInit
    \/ NarrowInit
    \/ HasInit
    \/ SearchArgs /\ argTypes \in AnyTypes
    \/ FilterPagInit

CallsNext ==
    SearchNext \/ IterReturn \/ NarrowReturn \/ HasCall \/ HasFetchFail \/ HasReturn
    \/ FilterPagCall

\* One call of any public operation, with arguments of the documented types
\* or with one argument of a wrong type, against a server that may answer
\* every fetch with any page.
SpecCalls == CallsInit /\ [][CallsNext]_vars

\* A pagination of L valid pages, L < MaxPages: pages on which the callback
\* of the running operation does not fail.
Sites ==
    {[fixed |-> TRUE, pages |-> ps] :
        ps \in SeqsUpTo({p \in Pages : ~callback(p).throws}, MaxPages - 1)}

EndInit ==
    /\ op \in {"iterateOverPagination", "filterProductCardsFromPagination"}
    /\ pc = IF op = "iterateOverPagination" THEN "iterStart" ELSE "filterPagStart"
    /\ pagUrl = <<>>
    /\ first \in {Undefined, 2}
    /\ last = Undefined
    /\ pageNum = 0
    /\ acc = <<>>
    /\ served = <<>>
    /\ NarrowIdle
    /\ SearchIdle
    /\ relResults = <<>> /\ relThresholds = NoThresholds /\ relOut = 0
    /\ AbortIdle
    /\ filterCfg \in PagFilterCfgs
    /\ filterFunction \in PagPredicates
    /\ filterDoc = <<>>
    /\ imgExist = <<>> /\ desExist = <<>>
    /\ argTypes = DocumentedTypes
    /\ site \in Sites
    /\ fetchLog = <<>>
    /\ result = <<>>
    /\ err = "none"

EndNext ==
    FilterPagCall \/ IterCall \/ IterLoop \/ IterFetchFail \/ IterPage \/ IterReturn

\* One call of iterateOverPagination or filterProductCardsFromPagination
\* without `last`, against a server that holds a pagination of L pages and
\* answers every page number past L with a page on which the callback fails
\* or with one of the L pages again. Every await resumes: a step that can
\* be taken is taken.
SpecEnd == EndInit /\ [][EndNext]_vars /\ WF_vars(EndNext)

AbortInit ==
    /\ op = "concurrent"
    /\ pc = "concurrent"
    /\ PagIdle /\ NarrowIdle /\ SearchIdle
    /\ relResults = <<>> /\ relThresholds = NoThresholds /\ relOut = 0
    /\ filterCfg = <<>> /\ filterDoc = <<>> /\ filterFunction = <<>>
    /\ imgExist = <<>> /\ desExist = <<>>
    /\ argTypes = DocumentedTypes /\ site = NoSite
    /\ controller = 0 /\ signal = 0 /\ aborted = {}
    /\ opPc = [p \in Ops |-> "idle"]
    /\ opFirstPage = [p \in Ops |-> TRUE]
    /\ opSignal = [p \in Ops |-> 0]
    /\ hitByAbort = {}
    /\ issuedAfterAbort = {}
    /\ fetchLog = <<>> /\ result = <<>> /\ err = "none"

AbortNext ==
    \/ \E p \in Ops : OpCall(p)
    \/ \E p \in Ops : OpFetch(p)
    \/ \E p \in Ops : OpFetchFail(p)
    \/ \E p \in Ops : OpPage(p)
    \/ Abort
    \/ Reset

\* Concurrent calls on one instance, interleaved with abort() and reset().
SpecAbort == AbortInit /\ [][AbortNext]_vars

\* ================================================================ claims
\* Data accumulated from the pages before the i-th processed page.
AccBefore(i) == Flatten([j \in 1..(i - 1) |-> served[j].data])

IterStopped == pc \in {"iterReturn", "done"}

\* C1: whenever the first element of a page's result is deeply equal to an
\* element accumulated from the earlier pages (whatever its value, the
\* empty string included), the iteration stops at that page and appends
\* none of its elements: acc is the concatenation of the earlier pages.
C1_DuplicatePageStops ==
    op = "iterateOverPagination" =>
        \A i \in 1..Len(served) :
            (/\ ~served[i].throws
             /\ served[i].data # <<>>
             /\ \E j \in 1..Len(AccBefore(i)) : AccBefore(i)[j] = served[i].data[1])
            => (/\ i = Len(served)
                /\ IterStopped
                /\ acc = AccBefore(i))

\* C2: a failure of the callback propagates iff it happens on the page
\* whose number is `first` (default 1); on a later page the iteration ends
\* without error and returns what the earlier pages accumulated.
C2_CallbackFailure ==
    op = "iterateOverPagination" =>
        /\ \A i \in 1..Len(served) :
            served[i].throws =>
                IF fetchLog[i] = PageUrl(pagUrl, startPageNum)
                THEN pc = "failed" /\ err = served[i].error
                ELSE /\ IterStopped
                     /\ err = "none"
                     /\ acc = AccBefore(i)
                     /\ (pc = "done" => result = AccBefore(i))
        /\ (pc = "failed" /\ err = "CallbackError") =>
                /\ Len(served) = 1
                /\ served[1].throws
                /\ fetchLog[1] = PageUrl(pagUrl, startPageNum)

\* C2 witness: the callback failed on the third page of an iteration that
\* starts at page 2, and the iteration returned the two earlier pages.
C2_Witness ==
    /\ op = "iterateOverPagination"
    /\ pc = "done"
    /\ first = 2
    /\ Len(served) = 3
    /\ served[3].throws
    /\ Len(result) = 3

\* Exactly the prefixes of length <= k find results.
ResultsUpTo(k) == \A j \in 1..Len(query) : hasRes[j] <=> j <= k

\* Exactly the prefixes of length >= k find results.
ResultsFrom(k) == \A j \in 1..Len(query) : hasRes[j] <=> j >= k

NarrowDone == op = "getOptimalForSearchSubstring" /\ pc = "done"

\* C3: when exactly the prefixes of length <= k find results, the returned
\* string is the prefix of length k (the maximum prefix with results).
C3_MaximumPrefix ==
    NarrowDone =>
        \A k \in 1..Len(query) : ResultsUpTo(k) => result = Substring0(query, k)

\* C4 as stated: when exactly the prefixes of length >= k find results, the
\* returned string is the prefix of length k (the shortest successful one).
C4_ShortestPrefix ==
    NarrowDone =>
        \A k \in 1..Len(query) : ResultsFrom(k) => result = Substring0(query, k)

\* C4 amended: when exactly the prefixes of length >= k find results, the
\* full query has results, so it is returned unchanged after one probe.
C4_FullQueryReturned ==
    NarrowDone =>
        \A k \in 1..Len(query) :
            ResultsFrom(k) => (result = query /\ Len(probes) = 1)

\* C4 witness: query "abcdef", only prefixes of length >= 4 find results,
\* and the call returned all six characters.
C4_Witness ==
    /\ NarrowDone
    /\ Len(query) = 6
    /\ ResultsFrom(4)
    /\ Len(result) = 6

SearchEnded == op = "searchProduct" /\ pc \in {"done", "failed"}

\* C5: with a url in basicInfo, searchProduct returns that url unchanged and
\* hands no URL to fetch, whatever the name and the brand are.
C5_KnownUrlShortCircuit ==
    (op = "searchProduct" /\ Truthy(basicInfo.url)) =>
        /\ fetchLog = <<>>
        /\ err = "none"
        /\ pc \in {"searchStart", "done"}
        /\ (pc = "done" => result = basicInfo.url.val[1])

\* C5 witness: a call with a brand and a known url has returned the url.
C5_Witness ==
    /\ op = "searchProduct"
    /\ pc = "done"
    /\ basicInfo.url = JsString("http://known")
    /\ Truthy(basicInfo.brand)
    /\ result = "http://known"

\* C6: when the search-result pages list no product card, so that no
\* candidate is gathered, searchProduct ends with the error
\* 'Search engine on the website does not work'.
C6_ZeroCandidatesError ==
    (/\ SearchEnded
     /\ served # <<>>
     /\ acc = <<>>
     /\ \A i \in 1..Len(served) : served[i] = Threw("EmptySelection"))
    => (pc = "failed" /\ err = "SearchEngineDoesNotWork")

\* C7: searchProduct ends with 'No products close enough were found' exactly
\* when the scorer returned relevance 0; for relevance 1, 2, 3 it returns
\* the url of the candidate at the returned index of the gathered list
\* (page order, then order within the page), and the index is in bounds.
C7_RelevanceDecides ==
    op = "searchProduct" =>
        /\ fuseReturned =>
            /\ acc = AccBefore(Len(served))
            /\ index \in 0..(Len(acc) - 1)
            /\ IF relevance = 0
               THEN pc = "failed" /\ err = "NoProductsCloseEnough"
               ELSE /\ relevance \in 1..3
                    /\ pc = "done"
                    /\ err = "none"
                    /\ result = acc[index + 1].val[3]
        /\ err = "NoProductsCloseEnough" => (fuseReturned /\ relevance = 0)

\* C7 witness: two pages gave one candidate each, the scorer returned
\* relevance 1 for the second candidate, and its url was returned.
C7_Witness ==
    /\ op = "searchProduct"
    /\ pc = "done"
    /\ fuseReturned
    /\ relevance = 1
    /\ index = 1
    /\ Len(served) = 3
    /\ acc = <<JsObject("n1", "", "u1"), JsObject("n2", "", "u2")>>
    /\ result = "u2"

RelevanceDone == op = "assessRelevance" /\ pc = "done"

\* C8: assessRelevance classifies in this order: 0 if topScore >= firstScore;
\* else 1 if topScore >= firstScoreWarning; else 2 if a second hit exists
\* and secondScore - topScore < difference; else 3. With
\* firstScoreWarning < firstScore: a top score equal to firstScore gives 0,
\* one equal to firstScoreWarning gives 1; below both thresholds a
\* difference equal to the difference threshold gives 3 and a single hit
\* gives 3.
C8_Classification ==
    RelevanceDone =>
        LET top == relResults[1].score
            t == relThresholds
            close == Len(relResults) > 1 /\ relResults[2].score - top < t.difference
            below == top < t.firstScore /\ top < t.firstScoreWarning
        IN
        /\ relOut \in 0..3
        /\ relOut = 0 <=> top >= t.firstScore
        /\ relOut = 1 <=> (top < t.firstScore /\ top >= t.firstScoreWarning)
        /\ relOut = 2 <=> (below /\ close)
        /\ relOut = 3 <=> (below /\ ~close)
        /\ top = t.firstScore => relOut = 0
        /\ (t.firstScoreWarning < t.firstScore /\ top = t.firstScoreWarning) => relOut = 1
        /\ (below /\ Len(relResults) > 1 /\ relResults[2].score - top = t.difference)
                => relOut = 3
        /\ (below /\ Len(relResults) = 1) => relOut = 3

\* C8 witness: two hits below both thresholds whose scores differ by exactly
\* the (positive) difference threshold were classified 3.
C8_Witness ==
    /\ RelevanceDone
    /\ Len(relResults) = 2
    /\ relResults[1].score < relThresholds.firstScoreWarning
    /\ relThresholds.firstScoreWarning < relThresholds.firstScore
    /\ relThresholds.difference > 0
    /\ relResults[2].score - relResults[1].score = relThresholds.difference
    /\ relOut = 3

FilterDone == op = "filterProductCardsFromPage" /\ pc = "done"

\* Cards for which filterFunction is true of the computed signals.
KeptCards ==
    {i \in 1..Len(filterDoc.cards) : filterFunction[<<imgExist[i], desExist[i]>>]}

\* C9: the returned array is a sub-sequence of the extracted cards in their
\* original order that contains card i exactly when
\* filterFunction(imagePresent_i, descriptionPresent_i) is true; no card is
\* duplicated, reordered or altered.
C9_FilterSubsequence ==
    FilterDone =>
        /\ \A k \in 1..Len(result) : result[k] \in KeptCards
        /\ \A i \in KeptCards : \E k \in 1..Len(result) : result[k] = filterDoc.cards[i]
        /\ \A k \in 1..Len(result) : \A m \in 1..Len(result) :
                k < m => result[k] < result[m]

\* C9 witness: four cards, the signals differ between cards, and the second
\* and fourth card were returned.
C9_Witness ==
    /\ FilterDone
    /\ Len(filterDoc.cards) = 4
    /\ imgExist = <<TRUE, FALSE, TRUE, FALSE>>
    /\ desExist = <<TRUE, TRUE, FALSE, FALSE>>
    /\ result = <<2, 4>>

\* C10: imgExist[i] is (image i differs from the image placeholder) when the
\* images selector and the image placeholder are both configured and false
\* otherwise; likewise desExist. In the documented example 'no image' keeps
\* cards 1 and 3 (0-based), 'no description' 2 and 3, 'no image and no
\* description' only 3, 'no image or no description' 1, 2 and 3.
C10_PresenceSignals ==
    FilterDone =>
        LET n == Len(filterDoc.cards)
            c == filterCfg
        IN
        /\ imgExist = [i \in 1..n |->
                        IF c.imagesSelector # "" /\ c.imagePlaceholder # ""
                        THEN filterDoc.images[i] # c.imagePlaceholder
                        ELSE FALSE]
        /\ desExist = [i \in 1..n |->
                        IF c.descriptionsSelector # "" /\ c.descriptionPlaceholder # ""
                        THEN filterDoc.descriptions[i] # c.descriptionPlaceholder
                        ELSE FALSE]
        /\ (filterDoc = ExampleDoc /\ filterCfg = ExampleCfg) =>
            /\ filterFunction = NoImage => result = <<2, 4>>
            /\ filterFunction = NoDescription => result = <<3, 4>>
            /\ filterFunction = NoImageAndNoDescription => result = <<4>>
            /\ filterFunction = NoImageOrNoDescription => result = <<2, 3, 4>>

\* C10 witness: the documented example filtered with 'no image and no
\* description' returned the fourth card only.
C10_Witness ==
    /\ FilterDone
    /\ filterDoc = ExampleDoc
    /\ filterCfg = ExampleCfg
    /\ filterFunction = NoImageAndNoDescription
    /\ result = <<4>>

\* Errors that report two parallel selections of different lengths.
MismatchErrors ==
    {"CardinalityMismatch", "ImagesCardinalityMismatch", "DescriptionsCardinalityMismatch"}

\* C11: once a page has been processed on which the number of images or of
\* descriptions differs from the number of cards (filtered paginations) or
\* the number of names from the number of links (searchProduct), whether it
\* is the first page or a later one, the operation does not return a
\* result: it ends with that error.
C11_MismatchIsFatal ==
    \A i \in 1..Len(served) :
        (served[i].throws /\ served[i].error \in MismatchErrors)
        => (/\ pc # "done"
            /\ pc = "failed" => err = served[i].error)

\* C12: whenever abort() is called, every fetch in flight at that moment is
\* cancelled, the fetches issued before an earlier reset() included: the
\* operations that had a fetch in flight at an abort() all fail, none of
\* them gets its page or returns.
C12_AbortCancelsAllInFlight ==
    op = "concurrent" =>
        \A p \in hitByAbort :
            \/ opPc[p] = "failed"
            \/ opPc[p] = "fetching" /\ opSignal[p] \in aborted

\* C13: a public operation called with an argument of a wrong type fails
\* with the validation error, never returns, and has handed no URL to fetch.
C13_ValidationBeforeIO ==
    argTypes # DocumentedTypes =>
        /\ fetchLog = <<>>
        /\ pc # "done"
        /\ pc = "failed" => err = "InvalidType"

\* The last fetch of the iteration failed: it was issued, it is no longer
\* in flight, and no page came of it.
FetchFailed ==
    /\ op = "iterateOverPagination"
    /\ Len(fetchLog) > Len(served)
    /\ pc # "iterFetching"

C15_StopsPastTheEnd ==
    (site.fixed /\ last = Undefined /\ Len(served) > Len(site.pages))
    => pc \in {"iterReturn", "done", "failed"}

\* Number of pages from `first` (default 1) to `last`, none when last < first.
PagesInRange == IF last < startPageNum THEN 0 ELSE last - startPageNum + 1

\* C16: the k-th fetch of iterateOverPagination is of url + (first + k - 1)
\* with first defaulting to 1, so pages are fetched in increasing
\* consecutive order and none twice; with `last` given no page past it is
\* fetched (at most last - first + 1 fetches), and with last < first there
\* is no fetch and the result is the empty array; once the iteration has
\* decided to stop no further fetch is issued.
C16_FetchOrder ==
    /\ [](op = "iterateOverPagination" =>
            /\ \A k \in 1..Len(fetchLog) :
                    fetchLog[k] = PageUrl(pagUrl, startPageNum + k - 1)
            /\ last # Undefined =>
                    /\ \A k \in 1..Len(fetchLog) : fetchLog[k].page <= last
                    /\ Len(fetchLog) <= PagesInRange
            /\ (last # Undefined /\ last < startPageNum) =>
                    /\ fetchLog = <<>>
                    /\ argTypes = DocumentedTypes => pc # "failed"
                    /\ pc = "done" => result = <<>>)
    /\ [][(op = "iterateOverPagination" /\ pc \in {"iterReturn", "done", "failed"})
            => fetchLog' = fetchLog]_vars

\* C16 witness: first = 2 and last = 3; pages 2 and 3 were fetched, in that
\* order, and the iteration returned.
C16_Witness ==
    /\ op = "iterateOverPagination"
    /\ pc = "done"
    /\ first = 2
    /\ last = 3
    /\ fetchLog = <<PageUrl(pagUrl, 2), PageUrl(pagUrl, 3)>>
    /\ Len(served) = 2

RECURSIVE CeilLog2(_)
\* ceil(log2(n)) for n >= 1.
CeilLog2(n) == IF n <= 1 THEN 0 ELSE 1 + CeilLog2((n + 1) \div 2)

\* Most probes a call with a query of length n may issue.
ProbeBound(n) == IF n = 0 THEN 1 ELSE 1 + CeilLog2(n)

\* C17: getOptimalForSearchSubstring ends (returns or throws) for every
\* query and every assignment of has-results answers to its prefixes; when
\* the full query has results it issues one probe and returns the query
\* unchanged; otherwise it issues at most 1 + ceil(log2(n)) probes; each
\* loop iteration issues exactly one probe, strictly shrinks right - left
\* and keeps 1 <= left < right <= n.
C17_NarrowingTerminates ==
    /\ <>(pc \in {"done", "failed"})
    /\ [](/\ Len(fetchLog) <= ProbeBound(Len(query))
          /\ Len(probes) <= Len(fetchLog)
          /\ (Len(probes) >= 1 /\ probes[1].res) =>
                /\ Len(fetchLog) = 1
                /\ (pc = "done" => result = query)
          /\ (pc = "narrowProbe" => (1 <= left /\ left < right /\ right <= Len(query))))
    /\ [][/\ (pc = "narrowLoop" /\ pc' = "narrowProbe") =>
                /\ Len(fetchLog') = Len(fetchLog) + 1
                /\ probes' = probes
          /\ (pc = "narrowProbe" /\ pc' = "narrowLoop") =>
                /\ Len(probes') = Len(probes) + 1
                /\ fetchLog' = fetchLog
                /\ right' - left' < right - left
                /\ 1 <= left' /\ left' < right' /\ right' <= Len(query)]_vars

\* C17 witness: a query of six characters whose full form finds nothing
\* took 1 + ceil(log2(6)) = 4 probes and returned.
C17_Witness ==
    /\ NarrowDone
    /\ Len(query) = 6
    /\ ~probes[1].res
    /\ Len(fetchLog) = 4
    /\ Len(probes) = 4

\* A call of fuseSearchProduct on its own has returned { index, relevance }.
FuseDone == op = "fuseSearchProduct" /\ pc = "done"

\* Position in fuseLog of the first ranking: the first search with a hit.
FirstRanking ==
    CHOOSE i \in 1..Len(fuseLog) :
        /\ fuseLog[i].hits # <<>>
        /\ \A j \in 1..(i - 1) : fuseLog[j].hits = <<>>

\* C18: when the first ranking of fuseSearchProduct is classified as
\* relevance 2, exactly one more search is made, with the same query (the
\* brand-qualified one if that stage produced the hits, otherwise the name)
\* and a larger fieldNormWeight than the first ranking had; the returned
\* index is that of its top hit and the returned relevance is 2. For
\* relevance 0, 1 and 3 no further search is made and the index is that of
\* the first ranking's top hit.
C18_RerunOnAmbiguity ==
    FuseDone =>
        LET i == FirstRanking
            rel == assessRelevance(fuseLog[i].hits, fuseThresholds)
        IN
        /\ result[2] = rel
        /\ fuseLog[i].query = "nameAndBrand" <=> i = 1 /\ fuseLog[1].query = "nameAndBrand"
        /\ IF rel = 2
           THEN /\ Len(fuseLog) = i + 1
                /\ fuseLog[i + 1].query = fuseLog[i].query
                /\ fuseLog[i + 1].weight > fuseLog[i].weight
                /\ result[1] = fuseLog[i + 1].hits[1].refIndex
           ELSE /\ Len(fuseLog) = i
                /\ result[1] = fuseLog[i].hits[1].refIndex

\* C19: fuseSearchProduct makes the brand-qualified search exactly when
\* basicInfo.brand is given (a non-empty string); it classifies with
\* fuseOptionsBrand exactly when that search was made and returned a hit;
\* otherwise it makes the name-only search and classifies its hits with
\* fuseOptionsBrandless, and it throws exactly when the name-only search
\* returns no hit either.
C19_ThresholdSetChoice ==
    (op = "fuseSearchProduct" /\ fuseLog # <<>>) =>
        LET brandSearched == fuseLog[1].query = "nameAndBrand"
            brandHit == brandSearched /\ fuseLog[1].hits # <<>>
            nameAt == IF brandSearched THEN 2 ELSE 1
        IN
        /\ brandSearched <=> Truthy(basicInfo.brand)
        /\ fuseThresholds = fuseOptionsBrand <=> brandHit
        /\ IF brandHit
           THEN /\ \A i \in 1..Len(fuseLog) : fuseLog[i].query = "nameAndBrand"
                /\ err = "none"
                /\ relevance = assessRelevance(fuseLog[1].hits, fuseOptionsBrand)
           ELSE /\ Len(fuseLog) >= nameAt
                /\ \A i \in nameAt..Len(fuseLog) : fuseLog[i].query = "name"
                /\ fuseThresholds = fuseOptionsBrandless
                /\ IF fuseLog[nameAt].hits = <<>>
                   THEN pc = "failed" /\ err = "FuseCannotFind"
                   ELSE /\ err = "none"
                        /\ relevance = assessRelevance(fuseLog[nameAt].hits,
                                                        fuseOptionsBrandless)

\* C19 witness: a brand was given, the brand-qualified search found
\* nothing, the name-only search did, and the call returned a relevance
\* that the brand-qualified set would not have given.
C19_Witness ==
    /\ FuseDone
    /\ Truthy(basicInfo.brand)
    /\ Len(fuseLog) >= 2
    /\ fuseLog[1].hits = <<>>
    /\ fuseLog[2].hits # <<>>
    /\ fuseThresholds = fuseOptionsBrandless
    /\ result[2] # assessRelevance(fuseLog[2].hits, fuseOptionsBrand)

\* C20: the result of fuseSearchProduct depends only on its arguments:
\* every call starts its first ranking with fieldNormWeight 0, a call gives
\* what the first call with the same arguments gave (the same index and
\* relevance, or the same error), and a finished call leaves
\* FUSE_DEFAULT_OPTIONS.fieldNormWeight at its default 0.
C20_DependsOnlyOnArguments ==
    op = "fuseSearchProduct" =>
        /\ fuseLog # <<>> => fuseLog[1].weight = 0
        /\ pc \in {"done", "failed"} =>
            /\ fieldNormWeight = 0
            /\ firstOutcome.known => Outcome = firstOutcome

\* The stage of searchProduct that a position belongs to: 0 Start,
\* 1 NarrowQuery, 2 GatherCandidates, 3 Score, 4 Done or Fail.
SearchStage(p) ==
    CASE p = "searchStart" -> 0
      [] p \in {"narrowStart", "narrowFirstProbe", "narrowLoop", "narrowProbe",
                "narrowReturn"} -> 1
      [] p \in {"iterStart", "iterLoop", "iterFetching", "iterReturn"} -> 2
      [] p \in {"fuseRerun", "fuseReturn"} -> 3
      [] OTHER -> 4

\* Positions in fetchLog of the URLs of one kind.
FetchesOf(kind) == {i \in 1..Len(fetchLog) : fetchLog[i].kind = kind}

\* C21: a run of searchProduct without a url goes through Start,
\* NarrowQuery, GatherCandidates, Score and then Done or Fail, never back
\* and never skipping a stage except to Fail. Every probe fetch (of a
\* prefix of the name) is answered before the first pagination fetch; the
\* pagination is that of the narrowed query, from page 1, with no last
\* page; scoring starts from the end of gathering only; no fetch is issued
\* from scoring on; an error thrown in a stage ends the run there.
C21_StageOrder ==
    /\ []((op = "searchProduct" /\ ~Truthy(basicInfo.url)) =>
            /\ \A i \in FetchesOf("page") : \A j \in FetchesOf("probe") : j < i
            /\ FetchesOf("page") # {} => Len(probes) = Cardinality(FetchesOf("probe"))
            /\ SearchStage(pc) < 2 => FetchesOf("page") = {}
            /\ \A j \in FetchesOf("probe") :
                    fetchLog[j].q = Substring0(basicInfo.name, Len(fetchLog[j].q))
            /\ \A i \in FetchesOf("page") :
                    fetchLog[i] = PageUrl(substr, i - Cardinality(FetchesOf("probe")))
            /\ SearchStage(pc) = 2 =>
                    (pagUrl = substr /\ first = Undefined /\ last = Undefined)
            /\ err # "none" <=> pc = "failed")
    /\ [][(op = "searchProduct" /\ ~Truthy(basicInfo.url)) =>
            /\ SearchStage(pc') >= SearchStage(pc)
            /\ SearchStage(pc') <= SearchStage(pc) + 1 \/ pc' = "failed"
            /\ (SearchStage(pc') = 3 /\ SearchStage(pc) # 3) => pc = "iterReturn"
            /\ SearchStage(pc) >= 1 => substr' = substr \/ SearchStage(pc') = 1
            /\ SearchStage(pc) >= 3 => fetchLog' = fetchLog
            /\ SearchStage(pc) = 4 => UNCHANGED vars]_vars

\* C21 witness: the name was narrowed with two probes, two pages of
\* candidates were gathered and a third fetched, and the run is done.
C21_Witness ==
    /\ op = "searchProduct"
    /\ ~Truthy(basicInfo.url)
    /\ pc = "done"
    /\ fuseReturned
    /\ Cardinality(FetchesOf("probe")) = 2
    /\ Cardinality(FetchesOf("page")) = 3
    /\ Len(acc) = 2
    /\ Len(substr) < Len(basicInfo.name)

\* C22: between an abort() and the next reset() every fetch the instance
\* issues fails: it carries an aborted signal, it can settle by rejecting
\* only, and its operation ends failed, whatever it had accumulated. An
\* abort() stays in force until reset(), and reset() starts a session that
\* is not aborted: a fetch issued then carries a signal no abort() has
\* touched.
C22_AbortedUntilReset ==
    /\ [](op = "concurrent" =>
            \A p \in issuedAfterAbort :
                /\ opPc[p] \in {"fetching", "failed"}
                /\ opSignal[p] \in aborted
                /\ opPc[p] = "fetching" =>
                        (ENABLED OpFetchFail(p) /\ ~ENABLED OpPage(p)))
    /\ [][op = "concurrent" =>
            /\ aborted \subseteq aborted'
            /\ controller' # controller => controller' \notin aborted'
            /\ \A p \in Ops :
                (opPc[p] = "loop" /\ opPc'[p] = "fetching") =>
                    /\ p \in issuedAfterAbort' <=> controller \in aborted
                    /\ opSignal'[p] \in aborted' <=> controller \in aborted]_vars

\* C22 witness: abort() was called, an operation that had already taken a
\* page issued its next fetch and failed; after reset() another operation
\* fetched a page and returned.
C22_Witness ==
    /\ op = "concurrent"
    /\ aborted = {0}
    /\ controller = 1
    /\ 1 \in issuedAfterAbort
    /\ opPc[1] = "failed"
    /\ ~opFirstPage[1]
    /\ 2 \notin issuedAfterAbort
    /\ opPc[2] = "done"
    /\ opSignal[2] = 1

\* C23: the string getOptimalForSearchSubstring returns is a prefix of the
\* query that was probed during the call and whose probe reported
\* results.
C23_ReturnsProbedPrefix ==
    NarrowDone =>
        /\ result = Substring0(query, Len(result))
        /\ \E i \in 1..Len(probes) :
                probes[i].len = Len(result) /\ probes[i].res

====
